---- MODULE Spec2Model ----
(***************************************************************************)
(* The x402 payment handshake of the Python SDK:                           *)
(*   - X402Client.request (x402_sdk/client.py): the retrying request       *)
(*     engine with automatic handling of a 402 challenge;                  *)
(*   - X402Middleware.require_payment (x402_sdk/middleware.py): the        *)
(*     server-side replay guard around a protected handler.                *)
(* The two halves are checked under two specifications, SpecClient and     *)
(* SpecServer, over one set of variables.                                  *)
(*                                                                         *)
(* Amounts are counted in units of 0.1 (the default ceiling 0.1 is 1).     *)
(* Times are whole clock readings; time.time() is never 0 on a real clock, *)
(* so the clock starts at 1.  An optional value (a Python None, a header   *)
(* that is absent) is the empty sequence, a present value v is <<v>>.      *)
(* The text of a header that float() or int() reads is a numeral or       *)
(* other text; parsing other text raises ValueError.                       *)
(***************************************************************************)
EXTENDS Integers, Sequences, FiniteSets, TLC

\* ------------------------------------------------------------------ bounds
MaxRetryAttempts == 3
MaxAmount == 2
MaxTime == 2
RetryAfterSecs == 2
NumRequests == 2

\* ------------------------------------------------------- program constants
DefaultRetryAfter == 60
DefaultMaxPayment == 1
DefaultRetryDelay == 1
DefaultExpiresIn == 600

\* -------------------------------------------------------- optional values
None == << >>
Some(v) == <<v>>

\* Python truthiness of an optional number and of an optional string.
TruthyNum(o) == o # None /\ o[1] # 0
TruthyStr(o) == o # None /\ o[1] # ""

VARIABLES
    \* ---- client (X402Client and one request() call)
    config,         \* self.config: retry_attempts, max_payment_per_request, retry_delay
    keypair,        \* self.keypair is set
    opts,           \* the call's max_payment and auto_sign arguments
    pc,             \* "idle", "send" (loop head), "paid" (before the paid send), "done"
    attempts,       \* local attempts
    last_error,     \* local last_error
    requirement,    \* local requirement (parsed challenge of this pass)
    signature,      \* local signature (executor output of this pass)
    result,         \* what the call returned or raised
    now,            \* time.time()
    executorCalls,  \* number of _execute_payment calls of this call
    initialSends,   \* number of proof-less sends of this call
    paidSends,      \* number of proof-bearing sends of this call
    transportFailures, \* number of initial sends that raised a generic
                    \* (non-timeout) transport exception
    lastSend,       \* the most recent send and what the transport answered
    paidHeaders,    \* the proof fields of the paid send of this pass
    slept,          \* the time.sleep of the most recent step, if any
    \* ---- server (module state of middleware.py and the requests in flight)
    used_references, \* _used_references
    verify_payments, \* self.verify_payments
    reqs,            \* the requests to the protected endpoint, by number
    issued,          \* the references the challenges of this server carried
    handlerRuns,     \* the requests the protected handler f was called for
    receivedCalls,   \* number of on_payment_received calls
    failedCalls,     \* number of on_payment_failed calls
    verifyCalls,     \* number of self.client.verify calls
    \* ---- one challenge on its way from the middleware to the client
    terms,           \* amount, currency, recipient, reference and expires
                     \* of the challenge the middleware is to send
    wire,            \* the X-402-* headers the middleware set
    parsed           \* what _parse_payment_requirement made of them

varsClient == <<config, keypair, opts, pc, attempts, last_error, requirement,
                signature, result, now, executorCalls, initialSends, paidSends,
                transportFailures, lastSend, paidHeaders, slept>>
varsServer == <<used_references, verify_payments, reqs, issued, handlerRuns,
                receivedCalls, failedCalls, verifyCalls>>
varsWire == <<terms, wire, parsed>>
vars == <<config, keypair, opts, pc, attempts, last_error, requirement,
          signature, result, now, executorCalls, initialSends, paidSends,
          transportFailures, lastSend, paidHeaders, slept, used_references, verify_payments,
          reqs, issued, handlerRuns, receivedCalls, failedCalls, verifyCalls,
          terms, wire, parsed>>

\* ------------------------------------------------------------ errors.py
X402Error(message, code, status_code, details) ==
    [exc |-> "X402Error", x402 |-> TRUE, message |-> message, code |-> code,
     status_code |-> status_code, details |-> details]

PaymentExpiredError(reference, expired_at) ==
    [exc |-> "PaymentExpiredError", x402 |-> TRUE,
     message |-> "Payment window expired", code |-> "PAYMENT_EXPIRED",
     status_code |-> Some(410),
     details |-> [reference |-> reference, expired_at |-> expired_at]]

RateLimitError(retry_after, limit) ==
    [exc |-> "RateLimitError", x402 |-> TRUE,
     message |-> "Rate limit exceeded", code |-> "RATE_LIMITED",
     status_code |-> Some(429),
     details |-> [retry_after |-> retry_after, limit |-> limit]]

NetworkError(message, original_error) ==
    [exc |-> "NetworkError", x402 |-> TRUE, message |-> message,
     code |-> "NETWORK_ERROR", status_code |-> Some(0),
     details |-> [original_error |-> original_error]]

MaxPaymentExceededError(requested, maximum) ==
    [exc |-> "MaxPaymentExceededError", x402 |-> TRUE,
     message |-> "Payment amount exceeds maximum allowed",
     code |-> "MAX_PAYMENT_EXCEEDED", status_code |-> Some(402),
     details |-> [requested |-> requested, maximum |-> maximum]]

\* The exceptions of the transport (requests.Timeout is a RequestException).
Timeout ==
    [exc |-> "Timeout", x402 |-> FALSE, message |-> "timeout", code |-> "",
     status_code |-> None, details |-> [transport |-> TRUE]]
ConnectionError ==
    [exc |-> "ConnectionError", x402 |-> FALSE, message |-> "connection",
     code |-> "", status_code |-> None, details |-> [transport |-> TRUE]]

IsRequestException(e) == e.exc \in {"Timeout", "ConnectionError"}

\* The ValueError float() and int() raise on text that is not a numeral.
ValueError ==
    [exc |-> "ValueError", x402 |-> FALSE, message |-> "invalid literal",
     code |-> "", status_code |-> None, details |-> [transport |-> FALSE]]

\* ------------------------------------------------- header text of numbers
\* The text of a header that is read as a number: a numeral (str(n)) or
\* text that is no numeral (an HTTP-date in Retry-After, "free", "").
Numeral(n) == [numeral |-> TRUE, value |-> n]
OtherText == [numeral |-> FALSE, value |-> 0]

\* ---------------------------------------------------- transport answers
NoHeaders ==
    [Amount |-> None, Currency |-> None, Recipient |-> None,
     Reference |-> None, Expires |-> None, Network |-> None,
     RetryAfter |-> None]

AmountHeaders ==
    {None, Some(OtherText)} \cup {Some(Numeral(a)) : a \in -1..MaxAmount}
CurrencyHeaders == {None, Some("USDC")}
RecipientHeaders == {None, Some("R1")}
ReferenceHeaders == {None, Some("pay_a"), Some("pay_b")}
ExpiresHeaders ==
    {None, Some(OtherText)} \cup {Some(Numeral(t)) : t \in 0..MaxTime}

ChallengeHeaders ==
    [Amount : AmountHeaders, Currency : CurrencyHeaders,
     Recipient : RecipientHeaders, Reference : ReferenceHeaders,
     Expires : ExpiresHeaders, Network : {None}, RetryAfter : {None}]

\* response.json() of an error body: not parseable, or a dict with a code.
Bodies == {None, Some([code |-> "E_BIZ", error |-> "rejected"])}

\* The body the middleware sends with a challenge (middleware.py 121-133).
ChallengeBody == Some([code |-> "PAYMENT_REQUIRED", error |-> "Payment Required"])

Responses ==
    {[status_code |-> 200, headers |-> NoHeaders, body |-> None]}
    \cup [status_code : {404, 500}, headers : {NoHeaders}, body : Bodies]
    \cup [status_code : {402}, headers : ChallengeHeaders,
          body : {ChallengeBody}]
    \cup [status_code : {429},
          headers : {[NoHeaders EXCEPT !.RetryAfter = h] :
                         h \in {None, Some(Numeral(RetryAfterSecs)),
                                Some(OtherText)}},
          body : {None}]

\* What a paid send can be answered with: as above, but a 402 there is a
\* rejection of the proof (its headers are not read by the client).
PaidResponses ==
    {r \in Responses : r.status_code # 402}
    \cup [status_code : {402}, headers : {NoHeaders}, body : Bodies]

OkBelow500(response) == response.status_code < 500

\* requests.Response.ok
Ok(response) == response.status_code < 400

\* A step of the try body ends by raising, by returning, or (after the
\* executor ran) by going on to the paid send.
Raised(e) == [how |-> "raise", error |-> e]
Returned(x) == [how |-> "return", value |-> x]

\* ------------------------------------------------ client.py: the helpers
ParseNumberLateDefault(header, default) ==
    IF header = None THEN Returned(MaxTime)
    ELSE IF header[1].numeral THEN Returned(header[1].value)
    ELSE Raised(ValueError)

\* float(headers.get(name, default)) and int(headers.get(name, default)):
\* the number the header's text denotes, the default when the header is
\* absent, ValueError when the text is no numeral.
ParseNumber(header, default) ==
    IF header = None THEN Returned(default)
    ELSE IF header[1].numeral THEN Returned(header[1].value)
    ELSE Raised(ValueError)

\* _parse_payment_requirement
_parse_payment_requirement(response) ==
    LET headers == response.headers
        amount == ParseNumber(headers.Amount, 0)
        currency == IF headers.Currency = None THEN "SOL"
                    ELSE headers.Currency[1]
        recipient == IF headers.Recipient = None THEN ""
                     ELSE headers.Recipient[1]
        reference == IF headers.Reference = None THEN ""
                     ELSE headers.Reference[1]
        expires == ParseNumber(headers.Expires, 0)
    IN  IF amount.how = "raise" THEN amount
        ELSE IF expires.how = "raise" THEN expires
        ELSE IF amount.value = 0 \/ recipient = "" \/ reference = ""
        THEN Raised(X402Error("Invalid 402 response: missing required headers",
                              "INVALID_402", None, None))
        ELSE Returned([amount |-> amount.value, currency |-> currency,
                       recipient |-> recipient, reference |-> reference,
                       expires |-> expires.value,
                       network |-> headers.Network])

\* _execute_payment: "simulated_{int(time.time())}_{hash(reference)}"
_execute_payment(req, t) == <<"simulated", t, req.reference>>

\* _handle_api_error: always raises
_handle_api_error(response) ==
    LET body == response.body
        code == IF body = None THEN "API_ERROR" ELSE body[1].code
        message == IF body = None THEN "Unknown API error" ELSE body[1].error
        retry_after == ParseNumber(response.headers.RetryAfter,
                                   DefaultRetryAfter)
    IN  IF response.status_code = 429
        THEN IF retry_after.how = "raise" THEN retry_after.error
             ELSE RateLimitError(retry_after.value, 0)
        ELSE X402Error(message, code, Some(response.status_code), body)

\* X402Response
X402Response(response, payment_made) ==
    [status |-> response.status_code, payment_made |-> payment_made]

\* actual_max_payment = max_payment or self.config.max_payment_per_request
actual_max_payment(max_payment, cfg) ==
    IF TruthyNum(max_payment) THEN max_payment[1]
    ELSE cfg.max_payment_per_request

\* ---------------------------------------- client.py: X402Client.request
CeilingValues == {0, MaxAmount}

Transport ==
    {Raised(Timeout), Raised(ConnectionError)}
    \cup {Returned(r) : r \in Responses}
PaidTransport ==
    {Raised(Timeout), Raised(ConnectionError)}
    \cup {Returned(r) : r \in PaidResponses}

\* if requirement.amount > actual_max_payment
ExceedsMax(req, maximum) == req.amount > maximum

ExpiredLate(t, req) == t > req.expires + 1

\* if time.time() > requirement.expires
Expired(t, req) == t > req.expires

KeypairNotChecked(kp) == FALSE

\* if not self.keypair
NoKeypair(kp) == ~kp

IsChallengeAnyMode(response, auto_sign) == response.status_code = 402

\* The challenge branch is taken: response.status_code == 402 and auto_sign
IsChallenge(response, auto_sign) == response.status_code = 402 /\ auto_sign

\* The try body from the initial send up to the paid send (lines 95-118 and
\* 146-153): raises, returns, or has run the executor ("pay").
InitialBody(t, auto_sign, maximum, kp, time) ==
    IF t.how = "raise" THEN t
    ELSE LET response == t.value IN
         IF IsChallenge(response, auto_sign)
         THEN LET p == _parse_payment_requirement(response) IN
              IF p.how = "raise" THEN p
              ELSE LET req == p.value IN
                   IF ExceedsMax(req, maximum)
                   THEN Raised(MaxPaymentExceededError(req.amount, maximum))
                   ELSE IF Expired(time, req)
                   THEN Raised(PaymentExpiredError(req.reference, req.expires))
                   ELSE IF NoKeypair(kp)
                   THEN Raised(X402Error(
                            "Keypair required for automatic payments",
                            "NO_KEYPAIR", None, None))
                   ELSE [how |-> "pay", requirement |-> req,
                         signature |-> _execute_payment(req, time)]
         ELSE IF ~Ok(response) THEN Raised(_handle_api_error(response))
         ELSE Returned(X402Response(response, None))

\* The requirement the try body parsed from this answer, if it parsed one.
ParsedChallenge(t, auto_sign) ==
    IF t.how = "return" /\ IsChallenge(t.value, auto_sign)
       /\ _parse_payment_requirement(t.value).how = "return"
    THEN Some(_parse_payment_requirement(t.value).value)
    ELSE None

\* The try body from the paid send on (lines 120-144).
PaidBody(t, req, sig) ==
    IF t.how = "raise" THEN t
    ELSE LET retry_response == t.value IN
         IF ~Ok(retry_response) THEN Raised(_handle_api_error(retry_response))
         ELSE Returned(X402Response(retry_response,
                  Some([amount |-> req.amount, currency |-> req.currency,
                        signature |-> sig])))

\* Where the call stands after a step: its position, its result, last_error
\* and the sleep of the step.
Finish(res, le, sl) ==
    [pc |-> "done", result |-> res, last_error |-> le, slept |-> sl]
NoResult == [how |-> "none"]

\* The while condition, and the raise after the loop (lines 91 and 169).
LoopHead(cfg, att, le, sl) ==
    IF att < cfg.retry_attempts
    THEN [pc |-> "send", result |-> NoResult, last_error |-> le, slept |-> sl]
    ELSE Finish(Raised(IF le # None THEN le[1]
                       ELSE NetworkError("Max retry attempts exceeded", None)),
                le, sl)

ExceptRateLimitUnbounded(e, cfg, att, le) ==
    [pc |-> "send", result |-> NoResult, last_error |-> le,
     slept |-> Some(e.details.retry_after)]

\* except RateLimitError: sleep(e.retry_after); continue
ExceptRateLimit(e, cfg, att, le) ==
    LoopHead(cfg, att, le, Some(e.details.retry_after))

ExceptX402Retried(e, le) ==
    [pc |-> "send", result |-> NoResult, last_error |-> le, slept |-> None]

\* except X402Error: raise
ExceptX402(e, le) == Finish(Raised(e), le, None)

\* except requests.Timeout: raise NetworkError("Request timed out")
ExceptTimeout(e, le) ==
    Finish(Raised(NetworkError("Request timed out", None)), le, None)

ExceptRequestExceptionEarly(e, cfg, att) ==
    IF att + 1 < cfg.retry_attempts
    THEN LoopHead(cfg, att, Some(e), Some(cfg.retry_delay * att))
    ELSE Finish(Raised(NetworkError("Network request failed", Some(e))),
                Some(e), None)

\* except requests.RequestException (lines 162-167)
ExceptRequestException(e, cfg, att) ==
    IF att < cfg.retry_attempts
    THEN LoopHead(cfg, att, Some(e), Some(cfg.retry_delay * att))
    ELSE Finish(Raised(NetworkError("Network request failed", Some(e))),
                Some(e), None)

ExceptTimeoutLast(e, cfg, att, le) ==
    IF e.exc = "RateLimitError" THEN ExceptRateLimit(e, cfg, att, le)
    ELSE IF e.x402 THEN ExceptX402(e, le)
    ELSE IF IsRequestException(e) THEN ExceptRequestException(e, cfg, att)
    ELSE IF e.exc = "Timeout" THEN ExceptTimeout(e, le)
    ELSE Finish(Raised(e), le, None)

\* The except clauses in their order (lines 155-167).
Except(e, cfg, att, le) ==
    IF e.exc = "RateLimitError" THEN ExceptRateLimit(e, cfg, att, le)
    ELSE IF e.x402 THEN ExceptX402(e, le)
    ELSE IF e.exc = "Timeout" THEN ExceptTimeout(e, le)
    ELSE IF IsRequestException(e) THEN ExceptRequestException(e, cfg, att)
    ELSE Finish(Raised(e), le, None)

\* A try body that raised or returned.
Control(b, cfg, att, le) ==
    IF b.how = "raise" THEN Except(b.error, cfg, att, le)
    ELSE Finish(b, le, None)

\* self.session.headers (lines 58-62)
SessionHeaders ==
    ("Authorization" :> "Bearer key") @@ ("Content-Type" :> "application/json")
    @@ ("X-402-SDK-Version" :> "1.0.0")

\* The url, method, headers and body arguments of the call.
CallerRequest ==
    [url |-> "/resource", method |-> "POST",
     headers |-> ("X-Trace" :> "t1") @@ ("Content-Type" :> "text/plain"),
     body |-> Some("payload")]

\* request_headers = dict(self.session.headers);
\* if headers: request_headers.update(headers)
request_headers(session_headers, headers) ==
    [k \in DOMAIN session_headers \cup DOMAIN headers |->
        IF k \in DOMAIN headers THEN headers[k] ELSE session_headers[k]]

\* json=body if body else None
JsonBody(body) == IF TruthyStr(body) THEN body ELSE None

\* The arguments of the initial self.session.request (lines 95-101)
InitialRequest(call) ==
    [method |-> call.method, url |-> call.url,
     headers |-> request_headers(SessionHeaders, call.headers),
     json |-> JsonBody(call.body)]

ProofFields == {"X-402-Payment-Signature", "X-402-Payment-Reference"}

retry_headers_signature_only(headers, sig, reference) ==
    [k \in DOMAIN headers \cup {"X-402-Payment-Signature"} |->
        IF k = "X-402-Payment-Signature" THEN sig ELSE headers[k]]

\* retry_headers = dict(request_headers) with the two proof fields set
\* (lines 120-122)
retry_headers(headers, sig, reference) ==
    [k \in DOMAIN headers \cup ProofFields |->
        IF k = "X-402-Payment-Signature" THEN sig
        ELSE IF k = "X-402-Payment-Reference" THEN reference
        ELSE headers[k]]

\* The arguments of the paid self.session.request (lines 124-130)
RetryRequest(call, sig, reference) ==
    [method |-> call.method, url |-> call.url,
     headers |-> retry_headers(request_headers(SessionHeaders, call.headers),
                               sig, reference),
     json |-> JsonBody(call.body)]

\* What the history keeps of a transport answer.
AnswerOf(t) ==
    IF t.how = "raise"
    THEN [exception |-> t.error.exc, status_code |-> 0, body |-> None,
          retry_after |-> None, expires |-> None, reference |-> None]
    ELSE [exception |-> "", status_code |-> t.value.status_code,
          body |-> t.value.body,
          retry_after |-> t.value.headers.RetryAfter,
          expires |-> t.value.headers.Expires,
          reference |-> t.value.headers.Reference]

NoSend == [phase |-> "none", attempt |-> 0, at |-> 0,
           request |-> [method |-> "", url |-> "", headers |-> << >>,
                        json |-> None],
           answer |-> [exception |-> "", status_code |-> 0, body |-> None,
                       retry_after |-> None, expires |-> None,
                       reference |-> None]]

\* set_keypair
set_keypair ==
    /\ pc = "idle"
    /\ ~keypair
    /\ keypair' = TRUE
    /\ UNCHANGED <<config, opts, pc, attempts, last_error, requirement,
                   signature, result, now, executorCalls, initialSends,
                   paidSends, transportFailures, lastSend, paidHeaders,
                   slept>>

\* request(): the call starts (lines 81-91)
Request ==
    /\ pc = "idle"
    /\ \E mp \in {None} \cup {Some(c) : c \in CeilingValues},
          as \in BOOLEAN :
          LET c == LoopHead(config, 0, None, None) IN
          /\ opts' = [max_payment |-> mp, auto_sign |-> as]
          /\ pc' = c.pc
          /\ result' = c.result
          /\ last_error' = c.last_error
          /\ slept' = c.slept
    /\ attempts' = 0
    /\ UNCHANGED <<config, keypair, requirement, signature, now,
                   executorCalls, initialSends, paidSends, transportFailures,
                   lastSend, paidHeaders>>

\* One pass of the loop from the initial send (lines 92-118, 146-167)
InitialSend ==
    /\ pc = "send"
    /\ \E t \in Transport :
          LET att == attempts + 1
              b == InitialBody(t, opts.auto_sign,
                               actual_max_payment(opts.max_payment, config),
                               keypair, now)
          IN  /\ attempts' = att
              /\ initialSends' = initialSends + 1
              /\ transportFailures' =
                     IF t = Raised(ConnectionError)
                     THEN transportFailures + 1 ELSE transportFailures
              /\ lastSend' = [phase |-> "initial", attempt |-> att,
                              at |-> now,
                              request |-> InitialRequest(CallerRequest),
                              answer |-> AnswerOf(t)]
              /\ requirement' = ParsedChallenge(t, opts.auto_sign)
              /\ IF b.how = "pay"
                 THEN /\ pc' = "paid"
                      /\ signature' = Some(b.signature)
                      /\ executorCalls' = executorCalls + 1
                      /\ slept' = None
                      /\ UNCHANGED <<result, last_error>>
                 ELSE LET c == Control(b, config, att, last_error) IN
                      /\ pc' = c.pc
                      /\ result' = c.result
                      /\ last_error' = c.last_error
                      /\ slept' = c.slept
                      /\ signature' = None
                      /\ UNCHANGED executorCalls
    /\ paidHeaders' = None
    /\ UNCHANGED <<config, keypair, opts, now, paidSends>>

\* The paid send of the same pass (lines 120-144, 155-167)
PaidSend ==
    /\ pc = "paid"
    /\ \E t \in PaidTransport :
          LET b == PaidBody(t, requirement[1], signature[1])
              c == Control(b, config, attempts, last_error)
              proof == [signature |-> signature[1],
                        reference |-> requirement[1].reference]
          IN  /\ paidSends' = paidSends + 1
              /\ lastSend' = [phase |-> "paid", attempt |-> attempts,
                              at |-> now,
                              request |-> RetryRequest(CallerRequest,
                                             signature[1],
                                             requirement[1].reference),
                              answer |-> AnswerOf(t)]
              /\ pc' = c.pc
              /\ result' = c.result
              /\ last_error' = c.last_error
              /\ slept' = c.slept
              \* a pass that continues leaves its locals dead: every later
              \* read of them follows a new assignment
              /\ IF c.pc = "send"
                 THEN /\ requirement' = None
                      /\ signature' = None
                      /\ paidHeaders' = None
                 ELSE /\ paidHeaders' = Some(proof)
                      /\ UNCHANGED <<requirement, signature>>
    /\ UNCHANGED <<config, keypair, opts, attempts, now, executorCalls,
                   initialSends, transportFailures>>

\* The clock advances while the call is in flight.
Tick ==
    /\ pc \in {"send", "paid"}
    /\ now < MaxTime
    /\ now' = now + 1
    /\ UNCHANGED <<config, keypair, opts, pc, attempts, last_error,
                   requirement, signature, result, executorCalls,
                   initialSends, paidSends, transportFailures, lastSend,
                   paidHeaders, slept>>

\* ------------------------- middleware.py: X402Middleware.require_payment
RequestIds == 1..NumRequests
ServerRefs == {"pay_a", "pay_b"}
Signatures == {"sig_good", "sig_bad"}

\* The terms the endpoint is decorated with (amount, currency, recipient).
EndpointAmount == 1
EndpointCurrency == "SOL"
EndpointRecipient == "R1"

NewRequest ==
    [pc |-> "new", signature |-> None, reference |-> None,
     response |-> None, x402_payment |-> None, admittedBefore |-> FALSE,
     usedAtArrival |-> FALSE, verified |-> None,
     \* the time.time() read for the request, the calls made while
     \* serving it ("verify", "on_payment_failed", "on_payment_received"),
     \* and whether a request with its reference had failed verification
     \* before it arrived
     at |-> 0, calls |-> {}, failedBefore |-> FALSE]

\* jsonify({"error": ..., "code": code}), 402
Rejection(code) ==
    [status |-> 402, code |-> code, payment |-> None, headers |-> None]

X402HeadersNativeOnly(payment) ==
    [Version |-> "1.0", Amount |-> Numeral(payment.amount),
     Currency |-> "SOL", Recipient |-> payment.recipient,
     Reference |-> payment.reference, Expires |-> Numeral(payment.expires)]

\* response.headers["X-402-..."] = ... (lines 135-140): the amount and the
\* expiry go out as their text, str(amount) and str(expires)
X402Headers(payment) ==
    [Version |-> "1.0", Amount |-> Numeral(payment.amount),
     Currency |-> payment.currency, Recipient |-> payment.recipient,
     Reference |-> payment.reference, Expires |-> Numeral(payment.expires)]

\* The challenge response (lines 118-142)
Challenge(reference, expires) ==
    LET payment == [amount |-> EndpointAmount,
                    currency |-> EndpointCurrency,
                    recipient |-> EndpointRecipient,
                    reference |-> reference, expires |-> expires]
    IN  [status |-> 402, code |-> "PAYMENT_REQUIRED",
         payment |-> Some(payment), headers |-> Some(X402Headers(payment))]

\* What the protected handler f answered; a handler that raised outside
\* the try block is the framework's 500.
HandlerResponse ==
    [status |-> 200, code |-> "OK", payment |-> None, headers |-> None]
HandlerFailure ==
    [status |-> 500, code |-> "INTERNAL", payment |-> None, headers |-> None]

\* PaymentInfo
PaymentInfo(sig, reference, amount, currency) ==
    [signature |-> sig, reference |-> reference, amount |-> amount,
     currency |-> currency]

\* if payment_signature and payment_reference
HasProof(r) == TruthyStr(r.signature) /\ TruthyStr(r.reference)

IsReplayNever(reference, used) == FALSE

\* if payment_reference in _used_references
IsReplay(reference, used) == reference \in used

MarkUsedDropped(reference, used) == used

\* _used_references.add(payment_reference)
MarkUsed(reference, used) == used \cup {reference}

VerificationPassedAlways(verification) == TRUE

\* if not verification.verified
VerificationPassed(verification) == verification.verified

ExpiresAtNow(t, expires_in) == t

\* expires = int(time.time()) + expires_in
ExpiresAt(t, expires_in) == t + expires_in

NextStepUnverified(vp) == "mark"

NextStepVerified(vp) == "verify"

\* if self.verify_payments: the step that follows the replay check
NextStep(vp) == IF vp THEN "verify" ELSE "mark"

\* The references requests failed verification with.
FailedRefs ==
    {reqs[j].reference[1] : j \in {k \in DOMAIN reqs :
                                      reqs[k].verified = Some(FALSE)}}

\* The references requests were admitted with (the handler was called).
AdmittedRefs == {reqs[j].reference[1] : j \in handlerRuns}

\* wrapped(), lines 51-61 and 118-142: the headers are read and the replay
\* check made; a request without a complete proof gets a fresh challenge.
Arrive(i) ==
    /\ reqs[i].pc = "new"
    /\ \E sig \in {None} \cup {Some(x) : x \in Signatures},
          ref \in {None} \cup {Some(x) : x \in ServerRefs},
          fresh \in ServerRefs :
          LET r == [reqs[i] EXCEPT !.signature = sig, !.reference = ref]
              p == [r EXCEPT !.usedAtArrival = ref[1] \in used_references,
                             !.admittedBefore = ref[1] \in AdmittedRefs,
                             !.failedBefore = ref[1] \in FailedRefs]
          IN  IF HasProof(r)
              THEN /\ reqs' = [reqs EXCEPT ![i] =
                          IF IsReplay(ref[1], used_references)
                          THEN [p EXCEPT !.pc = "done",
                                         !.response = Some(Rejection("REPLAY_ATTACK"))]
                          ELSE [p EXCEPT !.pc = NextStep(verify_payments)]]
                   /\ UNCHANGED issued
              ELSE /\ reqs' = [reqs EXCEPT ![i] =
                          [r EXCEPT !.pc = "done",
                                    !.at = now,
                                    !.response = Some(Challenge(fresh,
                                        ExpiresAt(now, DefaultExpiresIn)))]]
                   /\ issued' = issued \cup {fresh}
    /\ UNCHANGED <<used_references, verify_payments, handlerRuns,
                   receivedCalls, failedCalls, verifyCalls>>

\* self.client.verify(...) and what follows a verification that failed or
\* raised (lines 63-79 and 99-106)
Verify(i) ==
    /\ reqs[i].pc = "verify"
    /\ verifyCalls' = verifyCalls + 1
    /\ \E raises \in BOOLEAN :
          LET verification ==
                  [verified |-> reqs[i].signature[1] = "sig_good"]
          IN
          IF raises
          THEN /\ reqs' = [reqs EXCEPT ![i].pc = "done",
                              ![i].calls = @ \cup {"verify", "on_payment_failed"},
                              ![i].response = Some(Rejection("VERIFICATION_ERROR"))]
               /\ failedCalls' = failedCalls + 1
          ELSE IF ~VerificationPassed(verification)
          THEN /\ reqs' = [reqs EXCEPT ![i].pc = "done",
                              ![i].calls = @ \cup {"verify", "on_payment_failed"},
                              ![i].verified = Some(verification.verified),
                              ![i].response = Some(Rejection("VERIFICATION_FAILED"))]
               /\ failedCalls' = failedCalls + 1
          ELSE /\ reqs' = [reqs EXCEPT ![i].pc = "mark",
                              ![i].calls = @ \cup {"verify"},
                              ![i].verified = Some(verification.verified)]
               /\ UNCHANGED failedCalls
    /\ UNCHANGED <<used_references, verify_payments, issued, handlerRuns,
                   receivedCalls>>

\* _used_references.add(payment_reference); request.x402_payment = ...
\* (lines 81-92 and 108-115)
Mark(i) ==
    /\ reqs[i].pc = "mark"
    /\ used_references' = MarkUsed(reqs[i].reference[1], used_references)
    /\ reqs' = [reqs EXCEPT ![i].pc = "forward",
                   ![i].x402_payment =
                       Some(PaymentInfo(reqs[i].signature[1],
                                        reqs[i].reference[1],
                                        EndpointAmount, EndpointCurrency))]
    /\ UNCHANGED <<verify_payments, issued, handlerRuns, receivedCalls,
                   failedCalls, verifyCalls>>

\* on_payment_received(payment_info); return f(*args, **kwargs)
\* (lines 94-106 and 116): a handler that raises inside the try block is
\* answered as a verification error.
Forward(i) ==
    /\ reqs[i].pc = "forward"
    /\ handlerRuns' = handlerRuns \cup {i}
    /\ receivedCalls' = IF verify_payments THEN receivedCalls + 1
                        ELSE receivedCalls
    /\ \E raises \in BOOLEAN :
          IF ~raises
          THEN /\ reqs' = [reqs EXCEPT ![i].pc = "done",
                              ![i].calls = IF verify_payments
                                           THEN @ \cup {"on_payment_received"}
                                           ELSE @,
                              ![i].response = Some(HandlerResponse)]
               /\ UNCHANGED failedCalls
          ELSE IF verify_payments
          THEN /\ reqs' = [reqs EXCEPT ![i].pc = "done",
                              ![i].calls = @ \cup {"on_payment_received",
                                                   "on_payment_failed"},
                              ![i].response = Some(Rejection("VERIFICATION_ERROR"))]
               /\ failedCalls' = failedCalls + 1
          ELSE /\ reqs' = [reqs EXCEPT ![i].pc = "done",
                              ![i].response = Some(HandlerFailure)]
               /\ UNCHANGED failedCalls
    /\ UNCHANGED <<used_references, verify_payments, issued, verifyCalls>>

\* The server's clock advances between the steps of its requests.
ServerTick ==
    /\ now < MaxTime
    /\ now' = now + 1
    /\ UNCHANGED <<config, keypair, opts, pc, attempts, last_error,
                   requirement, signature, result, executorCalls,
                   initialSends, paidSends, transportFailures, lastSend,
                   paidHeaders, slept>>
    /\ UNCHANGED <<varsServer, varsWire>>

\* --------------------- middleware.py: the module-level require_payment
\* The challenge response of the module-level decorator (lines 180-199):
\* the recipient defaults to a placeholder and is not sent as a header.
StandaloneChallenge(reference, expires) ==
    [status |-> 402, code |-> "PAYMENT_REQUIRED",
     payment |-> Some([amount |-> EndpointAmount,
                       currency |-> EndpointCurrency,
                       recipient |-> "RECIPIENT_ADDRESS",
                       reference |-> reference, expires |-> expires]),
     headers |-> Some([Version |-> "1.0",
                       Amount |-> Numeral(EndpointAmount),
                       Currency |-> EndpointCurrency,
                       Reference |-> reference,
                       Expires |-> Numeral(expires)])]

\* if payment_signature (line 178)
HasSignature(r) == TruthyStr(r.signature)

\* wrapped() of the module-level decorator up to the call of f (lines
\* 172-199): only the signature header is read; the request may carry a
\* reference header, which is not looked at.
StandaloneArrive(i) ==
    /\ reqs[i].pc = "new"
    /\ \E sig \in {None} \cup {Some(x) : x \in Signatures},
          ref \in {None} \cup {Some(x) : x \in ServerRefs},
          fresh \in ServerRefs :
          LET r == [reqs[i] EXCEPT
                        !.signature = sig, !.reference = ref,
                        !.usedAtArrival =
                            ref # None /\ ref[1] \in used_references]
          IN  IF HasSignature(r)
              THEN /\ reqs' = [reqs EXCEPT ![i] = [r EXCEPT !.pc = "forward"]]
                   /\ UNCHANGED issued
              ELSE /\ reqs' = [reqs EXCEPT ![i] =
                          [r EXCEPT !.pc = "done",
                                    !.at = now,
                                    !.response = Some(StandaloneChallenge(
                                        fresh,
                                        ExpiresAt(now, DefaultExpiresIn)))]]
                   /\ issued' = issued \cup {fresh}
    /\ UNCHANGED <<used_references, verify_payments, handlerRuns,
                   receivedCalls, failedCalls, verifyCalls>>

\* return f(*args, **kwargs) (line 179)
StandaloneForward(i) ==
    /\ reqs[i].pc = "forward"
    /\ handlerRuns' = handlerRuns \cup {i}
    /\ \E raises \in BOOLEAN :
          reqs' = [reqs EXCEPT ![i].pc = "done",
                      ![i].response = IF raises THEN Some(HandlerFailure)
                                      ELSE Some(HandlerResponse)]
    /\ UNCHANGED <<used_references, verify_payments, issued, receivedCalls,
                   failedCalls, verifyCalls>>

\* ------------------------------- a challenge from middleware to client
\* The terms of the challenges an endpoint can be decorated to send, and
\* the state before one is chosen.
Terms ==
    [amount : -1..MaxAmount, currency : {"SOL", "USDC"},
     recipient : {"", "R1"}, reference : {"", "pay_a"},
     expires : 0..MaxTime]
NoTerms ==
    [amount |-> 0, currency |-> "", recipient |-> "", reference |-> "",
     expires |-> 0]

\* response.headers of the client's transport: every header the middleware
\* set is present with the text it was set to.
Received(headers) ==
    [Amount |-> Some(headers.Amount), Currency |-> Some(headers.Currency),
     Recipient |-> Some(headers.Recipient),
     Reference |-> Some(headers.Reference),
     Expires |-> Some(headers.Expires), Network |-> None,
     RetryAfter |-> None]

\* The middleware sets the headers of the challenge (lines 134-140).
Encode ==
    /\ wire = None
    /\ wire' = Some(X402Headers(terms))
    /\ UNCHANGED <<terms, parsed>>

\* The client parses the headers it received (client.py 268-289).
Parse ==
    /\ wire # None
    /\ parsed = None
    /\ parsed' = Some(_parse_payment_requirement(
                      [status_code |-> 402, headers |-> Received(wire[1]),
                       body |-> ChallengeBody]))
    /\ UNCHANGED <<terms, wire>>

\* ------------------------------------------------------- specifications
\* One request() call of one client; no request reaches the server.
InitClient ==
    /\ config \in [retry_attempts : 0..MaxRetryAttempts,
                   max_payment_per_request : {DefaultMaxPayment},
                   retry_delay : {DefaultRetryDelay}]
    /\ keypair = FALSE
    /\ opts = [max_payment |-> None, auto_sign |-> TRUE]
    /\ pc = "idle"
    /\ attempts = 0
    /\ last_error = None
    /\ requirement = None
    /\ signature = None
    /\ result = NoResult
    /\ now = 1
    /\ executorCalls = 0
    /\ initialSends = 0
    /\ paidSends = 0
    /\ transportFailures = 0
    /\ lastSend = NoSend
    /\ paidHeaders = None
    /\ slept = None
    /\ used_references = {}
    /\ verify_payments = TRUE
    /\ reqs = [i \in RequestIds |-> NewRequest]
    /\ issued = {}
    /\ handlerRuns = {}
    /\ receivedCalls = 0
    /\ failedCalls = 0
    /\ verifyCalls = 0
    /\ terms = NoTerms
    /\ wire = None
    /\ parsed = None

NextClient ==
    \/ set_keypair /\ UNCHANGED <<varsServer, varsWire>>
    \/ Request /\ UNCHANGED <<varsServer, varsWire>>
    \/ InitialSend /\ UNCHANGED <<varsServer, varsWire>>
    \/ PaidSend /\ UNCHANGED <<varsServer, varsWire>>
    \/ Tick /\ UNCHANGED <<varsServer, varsWire>>

SpecClient == InitClient /\ [][NextClient]_vars

\* The same call when every transport send returns or raises: a send that
\* is due is made and answered.
SpecClientFair ==
    /\ InitClient
    /\ [][NextClient]_vars
    /\ WF_vars(InitialSend /\ UNCHANGED <<varsServer, varsWire>>)
    /\ WF_vars(PaidSend /\ UNCHANGED <<varsServer, varsWire>>)

\* The requests to one protected endpoint; no client call is made.
InitServer ==
    /\ used_references = {}
    /\ verify_payments \in BOOLEAN
    /\ reqs = [i \in RequestIds |-> NewRequest]
    /\ issued = {}
    /\ handlerRuns = {}
    /\ receivedCalls = 0
    /\ failedCalls = 0
    /\ verifyCalls = 0
    /\ config = [retry_attempts |-> 3,
                 max_payment_per_request |-> DefaultMaxPayment,
                 retry_delay |-> DefaultRetryDelay]
    /\ keypair = FALSE
    /\ opts = [max_payment |-> None, auto_sign |-> TRUE]
    /\ pc = "idle"
    /\ attempts = 0
    /\ last_error = None
    /\ requirement = None
    /\ signature = None
    /\ result = NoResult
    /\ now = 1
    /\ executorCalls = 0
    /\ initialSends = 0
    /\ paidSends = 0
    /\ transportFailures = 0
    /\ lastSend = NoSend
    /\ paidHeaders = None
    /\ slept = None
    /\ terms = NoTerms
    /\ wire = None
    /\ parsed = None

NextServer ==
    \/ \E i \in RequestIds : Arrive(i) /\ UNCHANGED <<varsClient, varsWire>>
    \/ \E i \in RequestIds : Verify(i) /\ UNCHANGED <<varsClient, varsWire>>
    \/ \E i \in RequestIds : Mark(i) /\ UNCHANGED <<varsClient, varsWire>>
    \/ \E i \in RequestIds : Forward(i) /\ UNCHANGED <<varsClient, varsWire>>
    \/ ServerTick

SpecServer == InitServer /\ [][NextServer]_vars

\* The requests to an endpoint protected by the module-level
\* require_payment decorator.
InitStandalone ==
    /\ used_references = {}
    /\ verify_payments = TRUE
    /\ reqs = [i \in RequestIds |-> NewRequest]
    /\ issued = {}
    /\ handlerRuns = {}
    /\ receivedCalls = 0
    /\ failedCalls = 0
    /\ verifyCalls = 0
    /\ config = [retry_attempts |-> 3,
                 max_payment_per_request |-> DefaultMaxPayment,
                 retry_delay |-> DefaultRetryDelay]
    /\ keypair = FALSE
    /\ opts = [max_payment |-> None, auto_sign |-> TRUE]
    /\ pc = "idle"
    /\ attempts = 0
    /\ last_error = None
    /\ requirement = None
    /\ signature = None
    /\ result = NoResult
    /\ now = 1
    /\ executorCalls = 0
    /\ initialSends = 0
    /\ paidSends = 0
    /\ transportFailures = 0
    /\ lastSend = NoSend
    /\ paidHeaders = None
    /\ slept = None
    /\ terms = NoTerms
    /\ wire = None
    /\ parsed = None

NextStandalone ==
    \/ \E i \in RequestIds :
           StandaloneArrive(i) /\ UNCHANGED <<varsClient, varsWire>>
    \/ \E i \in RequestIds :
           StandaloneForward(i) /\ UNCHANGED <<varsClient, varsWire>>
    \/ ServerTick

SpecStandalone == InitStandalone /\ [][NextStandalone]_vars

\* One challenge is encoded by the middleware and parsed by the client.
InitWire ==
    /\ terms \in Terms
    /\ wire = None
    /\ parsed = None
    /\ used_references = {}
    /\ verify_payments = TRUE
    /\ reqs = [i \in RequestIds |-> NewRequest]
    /\ issued = {}
    /\ handlerRuns = {}
    /\ receivedCalls = 0
    /\ failedCalls = 0
    /\ verifyCalls = 0
    /\ config = [retry_attempts |-> 3,
                 max_payment_per_request |-> DefaultMaxPayment,
                 retry_delay |-> DefaultRetryDelay]
    /\ keypair = FALSE
    /\ opts = [max_payment |-> None, auto_sign |-> TRUE]
    /\ pc = "idle"
    /\ attempts = 0
    /\ last_error = None
    /\ requirement = None
    /\ signature = None
    /\ result = NoResult
    /\ now = 1
    /\ executorCalls = 0
    /\ initialSends = 0
    /\ paidSends = 0
    /\ transportFailures = 0
    /\ lastSend = NoSend
    /\ paidHeaders = None
    /\ slept = None

NextWire ==
    \/ Encode /\ UNCHANGED <<varsClient, varsServer>>
    \/ Parse /\ UNCHANGED <<varsClient, varsServer>>

SpecWire == InitWire /\ [][NextWire]_vars

\* C29: every reference in the consumed set was issued by a challenge of
\* this server and at most one request was admitted to the handler with
\* it; a request is admitted to the handler only with a reference that a
\* challenge of this server issued.
C29_ReferenceLifecycle ==
    /\ used_references \subseteq issued
    /\ \A i \in handlerRuns : reqs[i].reference[1] \in issued
    /\ \A ref \in used_references :
           Cardinality({i \in handlerRuns : reqs[i].reference = Some(ref)})
               <= 1

\* --------------------------------------------- properties, SpecStandalone

\* C28: on every protected path the handler is called for a request only
\* if the request carries both a payment signature and a payment
\* reference and the reference was not in the consumed set when the request
\* was read; stated here for the module-level require_payment decorator.
C28_AdmittedOnlyWithFreshProof ==
    \A i \in handlerRuns :
        /\ HasProof(reqs[i])
        /\ ~reqs[i].usedAtArrival

\* --------------------------------------------------- properties, SpecWire

C1_LaterRequestRejected ==
    \A i \in RequestIds :
        (HasProof(reqs[i]) /\ reqs[i].admittedBefore)
        => /\ reqs[i].pc = "done"
           /\ reqs[i].response = Some(Rejection("REPLAY_ATTACK"))
           /\ i \notin handlerRuns

\* A request with a signature that would verify arrived after another
\* request was admitted with its reference.
C1_Witness ==
    \E i \in RequestIds :
        /\ reqs[i].admittedBefore
        /\ reqs[i].signature = Some("sig_good")
        /\ reqs[i].pc = "done"
        /\ \E j \in handlerRuns : j # i /\ reqs[j].reference = reqs[i].reference

\* C2: of the requests that carry the same reference, at most one is
\* admitted to the protected handler, however their steps interleave.
C2_AtMostOneAdmitted ==
    \A i, j \in handlerRuns :
        reqs[i].reference = reqs[j].reference => i = j

\* C12: in verify-payments mode a request whose verification returned
\* verified=false is answered VERIFICATION_FAILED, on_payment_failed is
\* called, the handler is not called and the step leaves the consumed set
\* as it was; a request that arrives later with the same reference is
\* rejected as a replay only if another request marked the reference, and
\* when its proof verifies the handler is called for it.
C12_FailedVerificationNotConsumed ==
    /\ [](\A i \in RequestIds :
             reqs[i].verified = Some(FALSE)
             => /\ verify_payments
                /\ reqs[i].pc = "done"
                /\ reqs[i].response = Some(Rejection("VERIFICATION_FAILED"))
                /\ "on_payment_failed" \in reqs[i].calls
                /\ i \notin handlerRuns
                /\ reqs[i].x402_payment = None)
    /\ [][\A i \in RequestIds :
             (reqs[i].pc = "verify" /\ reqs'[i].verified = Some(FALSE))
             => used_references' = used_references]_vars
    /\ [](\A j \in RequestIds :
             reqs[j].failedBefore
             => /\ reqs[j].usedAtArrival
                   => \E k \in RequestIds \ {j} :
                          /\ reqs[k].reference = reqs[j].reference
                          /\ reqs[k].x402_payment # None
                /\ (reqs[j].verified = Some(TRUE) /\ reqs[j].pc = "done")
                   => j \in handlerRuns)

\* A request failed verification, and a request that arrived after it with
\* the same reference and a proof that verified was admitted.
C12_Witness ==
    \E i, j \in RequestIds :
        /\ reqs[i].verified = Some(FALSE)
        /\ reqs[j].failedBefore
        /\ reqs[j].reference = reqs[i].reference
        /\ reqs[j].verified = Some(TRUE)
        /\ j \in handlerRuns
        /\ reqs[j].response = Some(HandlerResponse)

\* C13: the steps for a proof-bearing request are ordered verification,
\* mark, forward: when the handler is about to be called or has been called
\* for a request, the request's reference is in the consumed set, and in
\* verify-payments mode the verifier was called for it and returned
\* verified=true; a request is marked only after that verification.
C13_VerifyThenMarkThenForward ==
    \A i \in RequestIds :
        /\ (reqs[i].pc = "forward" \/ i \in handlerRuns)
           => /\ HasProof(reqs[i])
              /\ reqs[i].x402_payment # None
              /\ reqs[i].reference[1] \in used_references
        /\ (verify_payments /\ reqs[i].x402_payment # None)
           => /\ "verify" \in reqs[i].calls
              /\ reqs[i].verified = Some(TRUE)

\* In verify-payments mode the handler was called for a request and
\* answered it.
C13_Witness ==
    \E i \in handlerRuns :
        /\ verify_payments
        /\ reqs[i].verified = Some(TRUE)
        /\ reqs[i].response = Some(HandlerResponse)

\* C14: a request that arrives with a reference that is already in the
\* consumed set is answered REPLAY_ATTACK without a call of the verifier,
\* of on_payment_received or of on_payment_failed, and without the handler.
C14_ReplayBeforeVerification ==
    \A i \in RequestIds :
        reqs[i].usedAtArrival
        => /\ reqs[i].calls = {}
           /\ reqs[i].verified = None
           /\ reqs[i].pc = "done"
           /\ reqs[i].response = Some(Rejection("REPLAY_ATTACK"))
           /\ i \notin handlerRuns

\* In verify-payments mode a request arrived with a consumed reference; its
\* signature is one the verifier would have been asked about.
C14_Witness ==
    \E i \in RequestIds :
        /\ verify_payments
        /\ reqs[i].usedAtArrival
        /\ reqs[i].signature = Some("sig_bad")
        /\ reqs[i].pc = "done"

\* A request that was answered without a complete proof.
Challenged(i) == reqs[i].pc = "done" /\ ~HasProof(reqs[i])

\* C15: a request without a complete proof (signature or reference
\* missing) is answered 402 PAYMENT_REQUIRED with a reference the server
\* generated and the expiry time.time() + expires_in; the headers carry the
\* text of the amount, currency, recipient, reference and expiry of the
\* body; the step leaves the consumed set unchanged and calls neither the
\* verifier, a callback nor the handler.
C15_ChallengeIssued ==
    /\ [](\A i \in RequestIds :
             Challenged(i)
             => LET response == reqs[i].response[1]
                    payment == response.payment[1]
                    headers == response.headers[1]
                IN  /\ response.status = 402
                    /\ response.code = "PAYMENT_REQUIRED"
                    /\ payment.expires = reqs[i].at + DefaultExpiresIn
                    /\ payment.amount = EndpointAmount
                    /\ payment.currency = EndpointCurrency
                    /\ payment.recipient = EndpointRecipient
                    /\ payment.reference \in issued
                    /\ headers.Amount = Numeral(payment.amount)
                    /\ headers.Currency = payment.currency
                    /\ headers.Recipient = payment.recipient
                    /\ headers.Reference = payment.reference
                    /\ headers.Expires = Numeral(payment.expires)
                    /\ reqs[i].calls = {}
                    /\ reqs[i].verified = None
                    /\ reqs[i].x402_payment = None
                    /\ i \notin handlerRuns)
    /\ [][\A i \in RequestIds :
             (reqs[i].pc = "new" /\ Challenged(i)')
             => used_references' = used_references]_vars

\* A request with a signature but no reference was challenged after the
\* clock had advanced and while a reference was in the consumed set.
C15_Witness ==
    \E i \in RequestIds :
        /\ Challenged(i)
        /\ reqs[i].signature # None
        /\ reqs[i].reference = None
        /\ reqs[i].at > 1
        /\ used_references # {}

\* C21: with verify_payments=False a request that carries a signature and
\* a reference that is not in the consumed set is admitted without a call
\* of the verifier (or of a callback); its reference is in the consumed set
\* when the handler is about to be called and afterwards, and a request
\* that arrives with that reference once it is there is answered
\* REPLAY_ATTACK without the handler.
C21_UnverifiedModeMarksFirst ==
    ~verify_payments
    => \A i \in RequestIds :
           /\ (HasProof(reqs[i]) /\ ~reqs[i].usedAtArrival)
              => /\ reqs[i].pc \in {"mark", "forward", "done"}
                 /\ reqs[i].calls = {}
                 /\ reqs[i].verified = None
                 /\ reqs[i].pc \in {"forward", "done"}
                    => reqs[i].reference[1] \in used_references
                 /\ reqs[i].pc = "done" => i \in handlerRuns
           /\ (HasProof(reqs[i]) /\ reqs[i].usedAtArrival)
              => /\ reqs[i].pc = "done"
                 /\ reqs[i].response = Some(Rejection("REPLAY_ATTACK"))
                 /\ i \notin handlerRuns

\* With verify_payments=False a request was admitted and a second request
\* with its reference was rejected.
C21_Witness ==
    /\ ~verify_payments
    /\ \E i, j \in RequestIds :
           /\ i \in handlerRuns
           /\ reqs[i].response = Some(HandlerResponse)
           /\ j \notin handlerRuns
           /\ reqs[j].reference = reqs[i].reference
           /\ reqs[j].admittedBefore
           /\ reqs[j].response = Some(Rejection("REPLAY_ATTACK"))

\* C27: a request is answered VERIFICATION_FAILED or VERIFICATION_ERROR
\* only when the verifier returned verified=false or raised: for every
\* request so answered the verifier did not return verified=true, the
\* handler was not called, on_payment_received was not called, and the
\* request did not add its reference to the consumed set.
C27_VerificationErrorsOnlyFromVerifier ==
    \A i \in RequestIds :
        (reqs[i].response = Some(Rejection("VERIFICATION_FAILED"))
         \/ reqs[i].response = Some(Rejection("VERIFICATION_ERROR")))
        => /\ reqs[i].verified # Some(TRUE)
           /\ i \notin handlerRuns
           /\ "on_payment_received" \notin reqs[i].calls
           /\ reqs[i].x402_payment = None

\* ------------------------------------------------- properties, SpecClient

\* The ceiling the call is to apply: the per-call max_payment when the
\* caller supplies one, the client-wide max_payment_per_request otherwise.
SuppliedCeiling ==
    IF opts.max_payment # None THEN opts.max_payment[1]
    ELSE config.max_payment_per_request

\* The most recent step was an initial send that was answered with a
\* challenge that parsed.
ChallengeHandled == lastSend.phase = "initial" /\ requirement # None

\* The executor did not run for the challenge just handled and no paid
\* send is pending or was made for it.
NotPaid == pc = "done" /\ signature = None /\ paidHeaders = None

\* C3 as stated: every challenge whose expiry is at or before the time of
\* the check (equal included) ends the call with PaymentExpired, without
\* the executor and without a paid send.
C3_ExpiredAtOrBeforeNow ==
    (ChallengeHandled /\ requirement[1].expires <= lastSend.at)
    => /\ NotPaid
       /\ result = Raised(PaymentExpiredError(requirement[1].reference,
                                              requirement[1].expires))

\* C3 as amended: a challenge whose expiry is strictly before the time of
\* the check is never paid (no executor call, no paid send) and ends the
\* call: with MaxPaymentExceeded when its amount is above the ceiling the
\* call applies, with PaymentExpired otherwise.
C3_ExpiredBeforeNow ==
    (ChallengeHandled /\ requirement[1].expires < lastSend.at)
    => /\ NotPaid
       /\ result =
            IF requirement[1].amount
                   > actual_max_payment(opts.max_payment, config)
            THEN Raised(MaxPaymentExceededError(
                     requirement[1].amount,
                     actual_max_payment(opts.max_payment, config)))
            ELSE Raised(PaymentExpiredError(requirement[1].reference,
                                            requirement[1].expires))

\* An affordable challenge that had expired was refused although the
\* keypair was set.
C3_Witness ==
    /\ ChallengeHandled
    /\ keypair
    /\ requirement[1].expires < lastSend.at
    /\ requirement[1].amount <= actual_max_payment(opts.max_payment, config)
    /\ result.how = "raise"
    /\ result.error.code = "PAYMENT_EXPIRED"

\* C4: every challenge whose amount is above the effective ceiling ends
\* the call with MaxPaymentExceeded{requested, limit}, without the executor
\* and without a paid send.
C4_AboveCeilingRefused ==
    (ChallengeHandled /\ requirement[1].amount > SuppliedCeiling)
    => /\ NotPaid
       /\ result = Raised(MaxPaymentExceededError(requirement[1].amount,
                                                  SuppliedCeiling))

\* C5: the executor runs at most once in a call, and a paid send is the
\* last send of the call: after it the call has ended.
C5_ExecutorAtMostOnce ==
    /\ executorCalls <= 1
    /\ paidSends >= 1 => pc = "done"

\* C6: a 402 answer to the paid send ends the call with the error the
\* classifier (_handle_api_error) builds from it; it is not parsed as a
\* challenge and the executor does not run again.
C6_Paid402IsRejection ==
    (lastSend.phase = "paid" /\ lastSend.answer.status_code = 402)
    => /\ pc = "done"
       /\ executorCalls = paidSends
       /\ result = Raised(X402Error(
              IF lastSend.answer.body = None THEN "Unknown API error"
              ELSE lastSend.answer.body[1].error,
              IF lastSend.answer.body = None THEN "API_ERROR"
              ELSE lastSend.answer.body[1].code,
              Some(402), lastSend.answer.body))

\* A paid send was answered 402 while attempts remained.
C6_Witness ==
    /\ lastSend.phase = "paid"
    /\ lastSend.answer.status_code = 402
    /\ attempts < config.retry_attempts
    /\ result.how = "raise"
    /\ result.error.code = "E_BIZ"

\* A response that the engine classifies: not successful, and not a 402
\* that the engine takes as a challenge (initial send, auto_sign).
Unsuccessful ==
    /\ lastSend.phase # "none"
    /\ lastSend.answer.exception = ""
    /\ lastSend.answer.status_code >= 400
    /\ ~(lastSend.phase = "initial" /\ lastSend.answer.status_code = 402
         /\ opts.auto_sign)

\* C7: a non-429 unsuccessful response to a send ends the call with the
\* classified error that carries the response's code, status and body,
\* whatever attempts remain.
C7_RejectionIsTerminal ==
    (Unsuccessful /\ lastSend.answer.status_code # 429)
    => /\ pc = "done"
       /\ result.how = "raise"
       /\ result.error.exc = "X402Error"
       /\ result.error.code = (IF lastSend.answer.body = None
                               THEN "API_ERROR"
                               ELSE lastSend.answer.body[1].code)
       /\ result.error.status_code = Some(lastSend.answer.status_code)
       /\ result.error.details = lastSend.answer.body

\* A 404 with a coded body ended the call on its first send, with attempts
\* remaining.
C7_Witness ==
    /\ Unsuccessful
    /\ lastSend.answer.status_code = 404
    /\ lastSend.answer.body # None
    /\ attempts = 1
    /\ config.retry_attempts > 1
    /\ pc = "done"

\* C8: a transport timeout of any send ends the call at once with
\* NetworkError.
C8_TimeoutIsTerminal ==
    lastSend.answer.exception = "Timeout"
    => /\ pc = "done"
       /\ result = Raised(NetworkError("Request timed out", None))

\* The paid send timed out while attempts remained.
C8_Witness ==
    /\ lastSend.phase = "paid"
    /\ lastSend.answer.exception = "Timeout"
    /\ attempts < config.retry_attempts
    /\ pc = "done"

\* C9: generic transport failures of the initial send are retried up to
\* retry_attempts tries: while every attempt so far failed so and attempts
\* remain the call sends again; a success after only such failures is
\* returned; when all retry_attempts attempts failed so the call raises
\* NetworkError wrapping the last transport error.
C9_TransportFailuresRetried ==
    /\ (pc # "idle" /\ transportFailures = attempts
        /\ attempts < config.retry_attempts)
       => pc = "send"
    /\ (lastSend.phase = "initial" /\ lastSend.answer.exception = ""
        /\ lastSend.answer.status_code < 400
        /\ transportFailures = attempts - 1)
       => /\ pc = "done"
          /\ result = Returned([status |-> lastSend.answer.status_code,
                                payment_made |-> None])
    /\ (pc # "idle" /\ transportFailures = attempts
        /\ attempts = config.retry_attempts /\ attempts > 0)
       => /\ pc = "done"
          /\ result = Raised(NetworkError("Network request failed",
                                          Some(ConnectionError)))

\* The transport failed on attempts 1 and 2 and succeeded on attempt 3.
C9_Witness ==
    /\ config.retry_attempts = 3
    /\ transportFailures = 2
    /\ attempts = 3
    /\ result.how = "return"

\* C10: a call that fails never surfaces a raw transport exception: what
\* it raises after exhausting its attempts is a NetworkError.
C10_NoRawTransportError ==
    (pc = "done" /\ result.how = "raise")
    => ~IsRequestException(result.error)

\* The most recent send was answered 429.
RateLimited ==
    lastSend.answer.exception = "" /\ lastSend.answer.status_code = 429

\* C11: a 429 answer to a send is never raised to the caller as
\* RateLimitError: the call sleeps the Retry-After the server gave (60
\* when it gave none) and sends again while attempts remain; once they are
\* exhausted it ends with another error; a success that answers the send
\* after a 429 is returned.
C11_RateLimitedIsRetried ==
    /\ []((pc = "done" /\ result.how = "raise")
          => result.error.exc # "RateLimitError")
    /\ [](RateLimited
          => /\ slept # None
             /\ lastSend.answer.retry_after = None
                => slept = Some(DefaultRetryAfter)
             /\ (lastSend.answer.retry_after # None
                 /\ lastSend.answer.retry_after[1].numeral)
                => slept = Some(lastSend.answer.retry_after[1].value)
             /\ attempts < config.retry_attempts => pc = "send"
             /\ attempts >= config.retry_attempts => pc = "done")
    /\ [][(RateLimited /\ pc = "send" /\ lastSend'.attempt > lastSend.attempt
           /\ lastSend'.answer.exception = ""
           /\ lastSend'.answer.status_code = 200)
          => result' = Returned([status |-> 200, payment_made |-> None])]_vars

\* The most recent send was an initial send that was answered with a 402
\* the call takes as a challenge.
ChallengeAnswered ==
    /\ lastSend.phase = "initial"
    /\ lastSend.answer.exception = ""
    /\ lastSend.answer.status_code = 402
    /\ opts.auto_sign

\* C16: the requirement parsed from a challenge has amount > 0 and a
\* non-empty recipient and reference; a challenge from which no requirement
\* is parsed ends the call with the INVALID_402 error, without the
\* executor and without a paid send.
C16_OnlyValidRequirements ==
    /\ requirement # None
       => /\ requirement[1].amount > 0
          /\ requirement[1].recipient # ""
          /\ requirement[1].reference # ""
    /\ (ChallengeAnswered /\ requirement = None)
       => /\ NotPaid
          /\ result = Raised(X402Error(
                 "Invalid 402 response: missing required headers",
                 "INVALID_402", None, None))

\* C17: a call that returns carries payment_made = {amount, currency,
\* signature}, of the parsed requirement and the executor's output, exactly
\* when the executor ran for a challenge in that call; otherwise it
\* carries no payment_made.
C17_PaymentMadeIffPaid ==
    (pc = "done" /\ result.how = "return")
    => IF executorCalls > 0
       THEN /\ requirement # None
            /\ signature # None
            /\ result.value.payment_made =
                   Some([amount |-> requirement[1].amount,
                         currency |-> requirement[1].currency,
                         signature |-> signature[1]])
       ELSE result.value.payment_made = None

\* C18: in a call with auto_sign=false no requirement is parsed, the
\* executor is not called and no proof-bearing request is sent, whatever
\* the answers; a 402 answer ends the call with the error the classifier
\* (_handle_api_error) builds from it, which carries status 402 and the
\* body of the challenge.
C18_NoAutoSignNoPayment ==
    (pc # "idle" /\ ~opts.auto_sign)
    => /\ requirement = None
       /\ signature = None
       /\ executorCalls = 0
       /\ paidSends = 0
       /\ paidHeaders = None
       /\ pc # "paid"
       /\ (lastSend.answer.exception = ""
           /\ lastSend.answer.status_code = 402)
          => /\ pc = "done"
             /\ result = Raised(X402Error(
                    lastSend.answer.body[1].error,
                    lastSend.answer.body[1].code,
                    Some(402), lastSend.answer.body))

\* With the keypair set and attempts remaining, a call with auto_sign=false
\* was answered 402 after an earlier send had failed.
C18_Witness ==
    /\ ~opts.auto_sign
    /\ keypair
    /\ lastSend.answer.status_code = 402
    /\ lastSend.attempt = 2
    /\ attempts < config.retry_attempts
    /\ pc = "done"
    /\ result.how = "raise"
    /\ result.error.code = "PAYMENT_REQUIRED"

\* The most recent send was answered with a challenge that parsed with
\* amount > 0, is affordable under the ceiling of the call and had not
\* expired when it was checked, and no keypair is set.
PayableWithoutKeypair ==
    /\ ChallengeHandled
    /\ requirement[1].amount > 0
    /\ requirement[1].amount <= SuppliedCeiling
    /\ requirement[1].expires >= lastSend.at
    /\ ~keypair

C20_NoExpiryNeverHonored ==
    (ChallengeAnswered /\ lastSend.answer.expires = None)
    => /\ NotPaid
       /\ result.how = "raise"
       /\ requirement # None
          => /\ requirement[1].expires = 0
             /\ result =
                  IF requirement[1].amount
                         > actual_max_payment(opts.max_payment, config)
                  THEN Raised(MaxPaymentExceededError(
                           requirement[1].amount,
                           actual_max_payment(opts.max_payment, config)))
                  ELSE Raised(PaymentExpiredError(
                           requirement[1].reference, 0))

\* With the keypair set, an affordable challenge without an expiry was
\* refused as expired.
C20_Witness ==
    /\ ChallengeAnswered
    /\ lastSend.answer.expires = None
    /\ keypair
    /\ requirement # None
    /\ requirement[1].amount > 0
    /\ requirement[1].amount <= actual_max_payment(opts.max_payment, config)
    /\ result.how = "raise"
    /\ result.error.code = "PAYMENT_EXPIRED"

\* C23: the ceiling a call applies is the max_payment the caller supplied,
\* for every supplied value (0 included), and the client-wide
\* max_payment_per_request only when none is supplied; a refusal for the
\* amount names that ceiling.
C23_CeilingIsOverride ==
    pc # "idle"
    => /\ actual_max_payment(opts.max_payment, config) = SuppliedCeiling
       /\ (ChallengeHandled /\ requirement[1].amount > SuppliedCeiling)
          => executorCalls = 0
       /\ (pc = "done" /\ result.how = "raise"
           /\ result.error.exc = "MaxPaymentExceededError")
          => result.error.details.maximum = SuppliedCeiling

\* C24: a call whose sends all return or raise ends; it makes at most
\* retry_attempts proof-less sends, each send counting as an attempt
\* whether it ended in a 429, in a transport failure or otherwise; once
\* retry_attempts attempts are used no further proof-less send is made,
\* and a call whose last answer was a 429 or a transport failure has
\* failed.
C24_CallTerminates ==
    /\ [](/\ initialSends = attempts
          /\ initialSends <= config.retry_attempts
          /\ paidSends <= initialSends)
    /\ []((pc # "idle" /\ attempts >= config.retry_attempts)
          => pc \in {"paid", "done"})
    /\ []((pc = "done" /\ (RateLimited
                            \/ lastSend.answer.exception = "ConnectionError"))
          => /\ result.how = "raise"
             /\ lastSend.answer.retry_after \in {None,
                                                 Some(Numeral(RetryAfterSecs))}
                => attempts = config.retry_attempts)
    /\ (pc \in {"send", "paid"}) ~> (pc = "done")

\* A call used all its attempts, one on a transport failure and the last
\* on a 429, and failed.
C24_Witness ==
    /\ pc = "done"
    /\ config.retry_attempts = MaxRetryAttempts
    /\ attempts = config.retry_attempts
    /\ initialSends = attempts
    /\ transportFailures >= 1
    /\ RateLimited
    /\ result.how = "raise"

\* C25: after attempt n failed with a generic transport error and another
\* attempt remains, the call sleeps retry_delay * n and sends again; after
\* such a failure of the last attempt it does not sleep; after a 429 it
\* sleeps the Retry-After the server gave (60 when it gave none), not the
\* backoff delay.
C25_LinearBackoff ==
    /\ (lastSend.answer.exception = "ConnectionError"
        /\ attempts < config.retry_attempts)
       => /\ pc = "send"
          /\ slept = Some(config.retry_delay * lastSend.attempt)
    /\ (lastSend.answer.exception = "ConnectionError"
        /\ attempts >= config.retry_attempts)
       => /\ pc = "done"
          /\ slept = None
    /\ RateLimited
       => /\ slept # None
          /\ lastSend.answer.retry_after = None
             => slept = Some(DefaultRetryAfter)
          /\ (lastSend.answer.retry_after # None
              /\ lastSend.answer.retry_after[1].numeral)
             => slept = Some(lastSend.answer.retry_after[1].value)

\* C26: the proof-bearing send has the method, url and body of the
\* proof-less send of the same attempt and its headers plus exactly the two
\* proof fields: the signature the executor returned for the requirement
\* of this attempt, and the reference of the challenge that answered the
\* proof-less send of this attempt.
C26_PaidSendIsOriginalPlusProof ==
    /\ [](pc = "paid"
          => /\ lastSend.phase = "initial"
             /\ lastSend.attempt = attempts
             /\ lastSend.request = InitialRequest(CallerRequest)
             /\ requirement # None
             /\ lastSend.answer.reference = Some(requirement[1].reference)
             /\ signature
                  = Some(_execute_payment(requirement[1], lastSend.at)))
    /\ [][(pc = "paid" /\ lastSend'.phase = "paid")
          => LET sent == lastSend'.request
                 original == lastSend.request
             IN  /\ lastSend'.attempt = lastSend.attempt
                 /\ sent.method = original.method
                 /\ sent.url = original.url
                 /\ sent.json = original.json
                 /\ DOMAIN sent.headers
                      = DOMAIN original.headers \cup ProofFields
                 /\ \A k \in DOMAIN original.headers :
                        sent.headers[k] = original.headers[k]
                 /\ sent.headers["X-402-Payment-Signature"] = signature[1]
                 /\ sent.headers["X-402-Payment-Reference"]
                      = lastSend.answer.reference[1]]_vars

\* A second challenge of the same call, with another reference than the
\* first, was paid and its proof-bearing request sent.
C26_Witness ==
    /\ lastSend.phase = "paid"
    /\ lastSend.attempt = 2
    /\ paidSends = 2
    /\ paidHeaders # None
    /\ paidHeaders[1].reference = "pay_b"
    /\ lastSend.request.headers["X-402-Payment-Reference"] = "pay_b"
    /\ lastSend.request.headers["X-Trace"] = "t1"

====
